---- MODULE Spec2Model ----
(***************************************************************************)
(* Model of function_app.py: a blob-triggered durable orchestration that   *)
(* runs analyze_pdf, summarize_text and write_doc in sequence, each under  *)
(* RetryOptions(5000, 3).                                                  *)
(*                                                                         *)
(* Python values are records tagged by t: a str is [t |-> "str", s |-> a   *)
(* sequence of one-character strings], None is [t |-> "none"], a dict is   *)
(* [t |-> "dict", <key> |-> <value>, ...].                                 *)
(***************************************************************************)
EXTENDS Integers, Sequences, FiniteSets, TLC

\* ------------------------------------------------------------------ bounds
MaxInst == 2
MaxClock == 1
MaxFairInst == 1
MaxPages == 2
MaxLines == 2

\* ------------------------------------------------------- program constants
first_retry_interval_in_milliseconds == 5000
max_number_of_attempts == 3

\* ---------------------------------------------------------- Python values
Str(s) == [t |-> "str", s |-> s]
None == [t |-> "none"]
SummaryDict(c) == [t |-> "dict", content |-> c]

Placeholder ==
  <<"N","o"," ","s","u","m","m","a","r","y"," ","g","e","n","e","r","a","t","e","d">>

\* --------------------------------------------------- environment's inputs
\* names under which objects are dropped into the input container
BlobNames == { <<"a">>, <<"b">> }

\* layout results: a sequence of pages, each a sequence of line contents
Docs == { <<>>, << << <<"x">>, <<"y">> >>, << <<"z">> >> >> }

\* the message of the first choice of a chat completion, or a failed call
Responses ==
  { [t |-> "error"],
    [t |-> "dict", content |-> Str(<<"s">>)],
    [t |-> "dict", content |-> Str(<<>>)],
    [t |-> "dict", content |-> None],
    [t |-> "dict"] }

Instances == 1..MaxInst

VARIABLES
  clock,        \* wall clock of the host, in seconds
  inputStore,   \* container "input": object name -> layout of the document
  outputStore,  \* container "output": object name -> uploaded data
  lastWriter,   \* history variable: object name -> instance that uploaded it last
  uploaded,     \* history variable: per instance, the object names it has stored
  events,       \* blob-created events not yet delivered to blob_trigger
  status,       \* per instance: position in the pipeline
  input,        \* per instance: context.get_input()
  history,      \* per instance: recorded results of the completed activity calls
  task,         \* per instance: the activity call scheduled and not yet completed
  running,      \* per instance: names of the activities with an attempt in flight
  output,       \* per instance: value returned by the orchestration
  invoked,      \* history variable: per instance, the activities that were started
  last          \* history variable: per instance, the attempt that finished last

vars == <<clock, inputStore, outputStore, lastWriter, uploaded, events, status,
          input, history, task, running, output, invoked, last>>

\* ------------------------------------------------------------ str helpers
RECURSIVE Split(_, _)
\* s.split(sep) for a one-character separator
Split(s, sep) ==
  IF \A k \in 1..Len(s) : s[k] # sep
  THEN << s >>
  ELSE LET k == CHOOSE j \in 1..Len(s) :
                  s[j] = sep /\ \A m \in 1..(j - 1) : s[m] # sep
       IN << SubSeq(s, 1, k - 1) >> \o Split(SubSeq(s, k + 1, Len(s)), sep)

DigitChars == <<"0", "1", "2", "3", "4", "5", "6", "7", "8", "9">>

RECURSIVE Pad(_, _)
\* n as w decimal digits, zero padded (%02d and the like)
Pad(n, w) ==
  IF w = 0 THEN <<>> ELSE Pad(n \div 10, w - 1) \o << DigitChars[(n % 10) + 1] >>

\* datetime.strftime("%Y%m%d-%H%M%S"); the date is rendered as the day number
strftime(now) ==
  LET day == now \div 86400
      sec == now % 86400
  IN Pad(day, 8) \o <<"-">>
       \o Pad(sec \div 3600, 2) \o Pad((sec \div 60) % 60, 2) \o Pad(sec % 60, 2)

\* ------------------------------------------------------------- blob store
EmptyContainer == [n \in {} |-> None]

\* variant: the overwrite flag is not honoured
upload_blob_no_overwrite(container, name, data, overwrite, serviceOk) ==
  IF data.t # "str"
  THEN [ok |-> FALSE, err |-> "TypeError", store |-> container, stored |-> {}]
  ELSE IF ~serviceOk
  THEN [ok |-> FALSE, err |-> "HttpResponseError", store |-> container,
        stored |-> {}]
  ELSE IF name \in DOMAIN container
  THEN [ok |-> FALSE, err |-> "ResourceExistsError", store |-> container,
        stored |-> {}]
  ELSE [ok |-> TRUE, err |-> "",
        store |-> [n \in DOMAIN container \cup {name} |->
                     IF n = name THEN data ELSE container[n]],
        stored |-> {name}]

\* variant: a failing service call leaves the object behind
upload_blob_not_atomic(container, name, data, overwrite, serviceOk) ==
  IF data.t # "str"
  THEN [ok |-> FALSE, err |-> "TypeError", store |-> container, stored |-> {}]
  ELSE IF name \in DOMAIN container /\ ~overwrite
  THEN [ok |-> FALSE, err |-> "ResourceExistsError", store |-> container,
        stored |-> {}]
  ELSE [ok |-> serviceOk, err |-> IF serviceOk THEN "" ELSE "HttpResponseError",
        store |-> [n \in DOMAIN container \cup {name} |->
                     IF n = name THEN data ELSE container[n]],
        stored |-> {name}]

\* ContainerClient.upload_blob(name, data, overwrite): the call either stores
\* the whole object or raises and stores nothing
upload_blob(container, name, data, overwrite, serviceOk) ==
  IF data.t # "str"
  THEN [ok |-> FALSE, err |-> "TypeError", store |-> container, stored |-> {}]
  ELSE IF ~serviceOk
  THEN [ok |-> FALSE, err |-> "HttpResponseError", store |-> container,
        stored |-> {}]
  ELSE IF name \in DOMAIN container /\ ~overwrite
  THEN [ok |-> FALSE, err |-> "ResourceExistsError", store |-> container,
        stored |-> {}]
  ELSE [ok |-> TRUE, err |-> "",
        store |-> [n \in DOMAIN container \cup {name} |->
                     IF n = name THEN data ELSE container[n]],
        stored |-> {name}]

\* ------------------------------------------------------------- activities
RECURSIVE LinesText(_)
LinesText(lines) ==
  IF lines = <<>> THEN <<>>
  ELSE lines[1] \o <<"\n">> \o LinesText(Tail(lines))

\* variant: the pages are taken last to first
RECURSIVE PagesText_reversed(_)
PagesText_reversed(pages) ==
  IF pages = <<>> THEN <<>>
  ELSE PagesText_reversed(Tail(pages)) \o LinesText(pages[1])

RECURSIVE PagesText(_)
PagesText(pages) ==
  IF pages = <<>> THEN <<>>
  ELSE LinesText(pages[1]) \o PagesText(Tail(pages))

\* analyze_pdf: download the blob, analyze it, concatenate the lines
analyze_pdf(blobName, container, serviceOk) ==
  IF blobName.s \notin DOMAIN container
  THEN [ok |-> FALSE, val |-> None, err |-> "ResourceNotFoundError", read |-> {}]
  ELSE IF ~serviceOk
  THEN [ok |-> FALSE, val |-> None, err |-> "HttpResponseError", read |-> {}]
  ELSE [ok |-> TRUE, val |-> Str(PagesText(container[blobName.s])), err |-> "",
        read |-> {}]

\* summarize_text: response is the message of choices[0], or a failed call
summarize_text(results, response) ==
  IF response.t = "error"
  THEN [ok |-> FALSE, val |-> None, err |-> "OpenAIError", read |-> {}]
  ELSE IF "content" \notin DOMAIN response
  THEN [ok |-> FALSE, val |-> None, err |-> "KeyError", read |-> {}]
  ELSE [ok |-> TRUE, val |-> SummaryDict(response.content), err |-> "",
        read |-> {}]

\* variant: the blob name is returned in place of the uploaded file name
write_doc_returns_blob_name(results, now, container, serviceOk) ==
  LET timestamp == strftime(now)
      filename == results.blobName.s \o <<"-">> \o timestamp \o <<".", "t", "x", "t">>
      summary == results.summary
      content == IF "content" \in DOMAIN summary
                 THEN summary.content ELSE Str(Placeholder)
      up == upload_blob(container, filename, content, TRUE, serviceOk)
  IN IF summary.t # "dict"
     THEN [ok |-> FALSE, val |-> None, err |-> "AttributeError", read |-> {now},
           store |-> container, stored |-> {}]
     ELSE IF up.ok
     THEN [ok |-> TRUE, val |-> results.blobName, err |-> "", read |-> {now},
           store |-> up.store, stored |-> up.stored]
     ELSE [ok |-> FALSE, val |-> None, err |-> up.err, read |-> {now},
           store |-> up.store, stored |-> up.stored]

\* variant: the file name lacks the .txt extension
write_doc_no_extension(results, now, container, serviceOk) ==
  LET timestamp == strftime(now)
      filename == results.blobName.s \o <<"-">> \o timestamp
      summary == results.summary
      content == IF "content" \in DOMAIN summary
                 THEN summary.content ELSE Str(Placeholder)
      up == upload_blob(container, filename, content, TRUE, serviceOk)
  IN IF summary.t # "dict"
     THEN [ok |-> FALSE, val |-> None, err |-> "AttributeError", read |-> {now},
           store |-> container, stored |-> {}]
     ELSE IF up.ok
     THEN [ok |-> TRUE, val |-> Str(filename), err |-> "", read |-> {now},
           store |-> up.store, stored |-> up.stored]
     ELSE [ok |-> FALSE, val |-> None, err |-> up.err, read |-> {now},
           store |-> up.store, stored |-> up.stored]

\* write_doc: derive the file name from the clock and upload the summary.
\* read is the clock value the attempt has read; store and stored are what
\* the upload left in the container.
write_doc(results, now, container, serviceOk) ==
  LET timestamp == strftime(now)
      filename == results.blobName.s \o <<"-">> \o timestamp \o <<".", "t", "x", "t">>
      summary == results.summary
      content == IF "content" \in DOMAIN summary
                 THEN summary.content ELSE Str(Placeholder)
      up == upload_blob(container, filename, content, TRUE, serviceOk)
  IN IF summary.t # "dict"
     THEN [ok |-> FALSE, val |-> None, err |-> "AttributeError", read |-> {now},
           store |-> container, stored |-> {}]
     ELSE IF up.ok
     THEN [ok |-> TRUE, val |-> Str(filename), err |-> "", read |-> {now},
           store |-> up.store, stored |-> up.stored]
     ELSE [ok |-> FALSE, val |-> None, err |-> up.err, read |-> {now},
           store |-> up.store, stored |-> up.stored]

\* ------------------------------------------------------------ orchestrator
\* variant: one attempt more than configured
RetryOptions_one_more(first, attempts) ==
  [first_retry_interval_in_milliseconds |-> first,
   max_number_of_attempts |-> attempts + 1]

RetryOptions(first, attempts) ==
  [first_retry_interval_in_milliseconds |-> first,
   max_number_of_attempts |-> attempts]

CallActivityWithRetry(name, retry, arg) ==
  [kind |-> "call", name |-> name, retry |-> retry, arg |-> arg]
Return(val) == [kind |-> "return", val |-> val]
Raise == [kind |-> "raise"]

\* variant: the first two calls of the body are swapped
process_document_swapped(context) ==
  LET blob_name == context.input
      h == context.history
      retry_options == [first_retry_interval_in_milliseconds |->
                          first_retry_interval_in_milliseconds,
                        max_number_of_attempts |-> max_number_of_attempts]
  IN IF Len(h) = 0
     THEN CallActivityWithRetry("summarize_text", retry_options, blob_name)
     ELSE IF ~h[1].ok THEN Raise
     ELSE IF Len(h) = 1
     THEN CallActivityWithRetry("analyze_pdf", retry_options, blob_name)
     ELSE IF ~h[2].ok THEN Raise
     ELSE IF Len(h) = 2
     THEN CallActivityWithRetry("write_doc", retry_options,
            [t |-> "dict", blobName |-> blob_name, summary |-> h[1].val])
     ELSE IF ~h[3].ok THEN Raise
     ELSE Return(h[3].val)

\* variant: write_doc is handed the extracted text in place of the summary
process_document_wrong_summary(context) ==
  LET blob_name == context.input
      h == context.history
      retry_options == [first_retry_interval_in_milliseconds |->
                          first_retry_interval_in_milliseconds,
                        max_number_of_attempts |-> max_number_of_attempts]
  IN IF Len(h) = 0
     THEN CallActivityWithRetry("analyze_pdf", retry_options, blob_name)
     ELSE IF ~h[1].ok THEN Raise
     ELSE IF Len(h) = 1
     THEN CallActivityWithRetry("summarize_text", retry_options, h[1].val)
     ELSE IF ~h[2].ok THEN Raise
     ELSE IF Len(h) = 2
     THEN CallActivityWithRetry("write_doc", retry_options,
            [t |-> "dict", blobName |-> blob_name, summary |-> h[1].val])
     ELSE IF ~h[3].ok THEN Raise
     ELSE Return(h[3].val)

\* variant: the body reads the clock and hands the timestamp to write_doc
process_document_reads_clock(context) ==
  LET blob_name == context.input
      h == context.history
      retry_options == [first_retry_interval_in_milliseconds |->
                          first_retry_interval_in_milliseconds,
                        max_number_of_attempts |-> max_number_of_attempts]
  IN IF Len(h) = 0
     THEN CallActivityWithRetry("analyze_pdf", retry_options, blob_name)
     ELSE IF ~h[1].ok THEN Raise
     ELSE IF Len(h) = 1
     THEN CallActivityWithRetry("summarize_text", retry_options, h[1].val)
     ELSE IF ~h[2].ok THEN Raise
     ELSE IF Len(h) = 2
     THEN CallActivityWithRetry("write_doc", retry_options,
            [t |-> "dict", blobName |-> blob_name, summary |-> h[2].val,
             timestamp |-> Str(strftime(context.now))])
     ELSE IF ~h[3].ok THEN Raise
     ELSE Return(h[3].val)

\* variant: the body goes from the analysis straight to write_doc
process_document_skips_summarize(context) ==
  LET blob_name == context.input
      h == context.history
      retry_options == [first_retry_interval_in_milliseconds |->
                          first_retry_interval_in_milliseconds,
                        max_number_of_attempts |-> max_number_of_attempts]
  IN IF Len(h) = 0
     THEN CallActivityWithRetry("analyze_pdf", retry_options, blob_name)
     ELSE IF ~h[1].ok THEN Raise
     ELSE IF Len(h) = 1
     THEN CallActivityWithRetry("write_doc", retry_options,
            [t |-> "dict", blobName |-> blob_name,
             summary |-> SummaryDict(h[1].val)])
     ELSE IF ~h[2].ok THEN Raise
     ELSE Return(h[2].val)

\* variant: write_doc is called without the retries
process_document_write_once(context) ==
  LET blob_name == context.input
      h == context.history
      retry_options == [first_retry_interval_in_milliseconds |->
                          first_retry_interval_in_milliseconds,
                        max_number_of_attempts |-> max_number_of_attempts]
  IN IF Len(h) = 0
     THEN CallActivityWithRetry("analyze_pdf", retry_options, blob_name)
     ELSE IF ~h[1].ok THEN Raise
     ELSE IF Len(h) = 1
     THEN CallActivityWithRetry("summarize_text", retry_options, h[1].val)
     ELSE IF ~h[2].ok THEN Raise
     ELSE IF Len(h) = 2
     THEN CallActivityWithRetry("write_doc",
            [first_retry_interval_in_milliseconds |-> 0,
             max_number_of_attempts |-> 1],
            [t |-> "dict", blobName |-> blob_name, summary |-> h[2].val])
     ELSE IF ~h[3].ok THEN Raise
     ELSE Return(h[3].val)

\* variant: the body derives the returned file name from the clock itself
process_document_names_output(context) ==
  LET blob_name == context.input
      h == context.history
      retry_options == [first_retry_interval_in_milliseconds |->
                          first_retry_interval_in_milliseconds,
                        max_number_of_attempts |-> max_number_of_attempts]
  IN IF Len(h) = 0
     THEN CallActivityWithRetry("analyze_pdf", retry_options, blob_name)
     ELSE IF ~h[1].ok THEN Raise
     ELSE IF Len(h) = 1
     THEN CallActivityWithRetry("summarize_text", retry_options, h[1].val)
     ELSE IF ~h[2].ok THEN Raise
     ELSE IF Len(h) = 2
     THEN CallActivityWithRetry("write_doc", retry_options,
            [t |-> "dict", blobName |-> blob_name, summary |-> h[2].val])
     ELSE IF ~h[3].ok THEN Raise
     ELSE Return(Str(blob_name.s \o <<"-">> \o strftime(context.now)
                       \o <<".", "t", "x", "t">>))

\* process_document: one execution of the generator against the recorded
\* history; context.now is the wall clock at this execution.  A failed task
\* raises at its yield and the body does not catch it.
process_document(context) ==
  LET blob_name == context.input
      h == context.history
      retry_options == RetryOptions(first_retry_interval_in_milliseconds,
                                    max_number_of_attempts)
  IN IF Len(h) = 0
     THEN CallActivityWithRetry("analyze_pdf", retry_options, blob_name)
     ELSE IF ~h[1].ok THEN Raise
     ELSE IF Len(h) = 1
     THEN CallActivityWithRetry("summarize_text", retry_options, h[1].val)
     ELSE IF ~h[2].ok THEN Raise
     ELSE IF Len(h) = 2
     THEN CallActivityWithRetry("write_doc", retry_options,
            [t |-> "dict", blobName |-> blob_name, summary |-> h[2].val])
     ELSE IF ~h[3].ok THEN Raise
     ELSE Return(h[3].val)

\* position of the pipeline while the named activity is scheduled
StateOf(name) ==
  CASE name = "analyze_pdf" -> "AnalyzingDocument"
    [] name = "summarize_text" -> "Summarizing"
    [] name = "write_doc" -> "Writing"

Activities == {"analyze_pdf", "summarize_text", "write_doc"}

NoAttempt ==
  [name |-> "", arg |-> None, attempt |-> 0, ok |-> TRUE, val |-> None,
   err |-> "", read |-> {}]

NoTask == [name |-> "", arg |-> None, attempts |-> 0, max |-> 0]

Terminal == {"Completed", "Failed"}

\* ------------------------------------------------------------------- Init
Init ==
  /\ clock = 0
  /\ inputStore = EmptyContainer
  /\ outputStore = EmptyContainer
  /\ lastWriter = [n \in {} |-> 0]
  /\ uploaded = [i \in Instances |-> {}]
  /\ events = {}
  /\ status = [i \in Instances |-> "NotStarted"]
  /\ input = [i \in Instances |-> None]
  /\ history = [i \in Instances |-> <<>>]
  /\ task = [i \in Instances |-> NoTask]
  /\ running = [i \in Instances |-> {}]
  /\ output = [i \in Instances |-> None]
  /\ invoked = [i \in Instances |-> {}]
  /\ last = [i \in Instances |-> NoAttempt]

\* ---------------------------------------------------------------- actions
\* the host's clock advances
Tick ==
  /\ clock < MaxClock
  /\ clock' = clock + 1
  /\ UNCHANGED <<inputStore, outputStore, lastWriter, uploaded, events, status,
                 input, history, task, running, output, invoked, last>>

\* a client drops an object into the input container; at most n objects are
\* dropped in a run
UploadUpTo(n, name, doc) ==
  /\ Cardinality({i \in Instances : status[i] # "NotStarted"})
       + Cardinality(events) < n
  /\ inputStore' = [m \in DOMAIN inputStore \cup {name} |->
                      IF m = name THEN doc ELSE inputStore[m]]
  /\ events' = events \cup { <<"i", "n", "p", "u", "t", "/">> \o name }
  /\ UNCHANGED <<clock, outputStore, lastWriter, uploaded, status, input,
                 history, task, running, output, invoked, last>>

Upload(name, doc) == UploadUpTo(MaxInst, name, doc)

\* blob_trigger: start one orchestration for the blob of the event
blob_trigger(myblob_name) ==
  /\ myblob_name \in events
  /\ \E i \in Instances :
       /\ status[i] = "NotStarted"
       /\ \A j \in Instances : j < i => status[j] # "NotStarted"
       /\ LET blob_name == Split(myblob_name, "/")[2]
          IN input' = [input EXCEPT ![i] = Str(blob_name)]
       /\ status' = [status EXCEPT ![i] = "Started"]
  /\ events' = events \ {myblob_name}
  /\ UNCHANGED <<clock, inputStore, outputStore, lastWriter, uploaded, history,
                 task, running, output, invoked, last>>

\* the runtime runs (or replays) the orchestrator body of instance i against
\* the recorded history and carries out the action it issues; a call that is
\* already scheduled is not scheduled again
Execute(i) ==
  /\ status[i] # "NotStarted"
  /\ LET d == process_document([input |-> input[i], history |-> history[i],
                                now |-> clock])
     IN CASE d.kind = "call" ->
                  /\ IF task[i] = NoTask
                     THEN /\ task' = [task EXCEPT ![i] =
                                 [name |-> d.name, arg |-> d.arg, attempts |-> 0,
                                  max |-> d.retry.max_number_of_attempts]]
                          /\ status' = [status EXCEPT ![i] = StateOf(d.name)]
                     ELSE UNCHANGED <<task, status>>
                  /\ UNCHANGED output
             [] d.kind = "return" ->
                  /\ status' = [status EXCEPT ![i] = "Completed"]
                  /\ output' = [output EXCEPT ![i] = d.val]
                  /\ UNCHANGED task
             [] d.kind = "raise" ->
                  /\ status' = [status EXCEPT ![i] = "Failed"]
                  /\ UNCHANGED <<task, output>>
  /\ UNCHANGED <<clock, inputStore, outputStore, lastWriter, uploaded, events,
                 input, history, running, invoked, last>>

\* the runtime starts an attempt of the scheduled activity
StartAttempt(i) ==
  /\ task[i] # NoTask
  /\ task[i].name \notin running[i]
  /\ task[i].attempts < task[i].max
  /\ task' = [task EXCEPT ![i].attempts = @ + 1]
  /\ running' = [running EXCEPT ![i] = @ \cup {task[i].name}]
  /\ invoked' = [invoked EXCEPT ![i] = @ \cup {task[i].name}]
  /\ UNCHANGED <<clock, inputStore, outputStore, lastWriter, uploaded, events,
                 status, input, history, output, last>>

\* the runtime takes the outcome r of the attempt in flight: a result is
\* recorded, a failure is retried until the attempts are used up and then
\* recorded as the task's failure
Finish(i, r) ==
  /\ running' = [running EXCEPT ![i] = @ \ {task[i].name}]
  /\ last' = [last EXCEPT ![i] =
                [name |-> task[i].name, arg |-> task[i].arg,
                 attempt |-> task[i].attempts, ok |-> r.ok, val |-> r.val,
                 err |-> r.err, read |-> r.read]]
  /\ IF r.ok \/ task[i].attempts >= task[i].max
     THEN /\ history' = [history EXCEPT ![i] =
                           Append(@, [ok |-> r.ok, val |-> r.val])]
          /\ task' = [task EXCEPT ![i] = NoTask]
     ELSE UNCHANGED <<history, task>>

\* variant: a successful analysis removes the blob it has read
AnalyzePdf_deletes(i) ==
  /\ "analyze_pdf" \in running[i]
  /\ task[i].name = "analyze_pdf"
  /\ \E serviceOk \in BOOLEAN :
       LET r == analyze_pdf(task[i].arg, inputStore, serviceOk)
       IN /\ Finish(i, r)
          /\ inputStore' =
               IF r.ok
               THEN [n \in DOMAIN inputStore \ {task[i].arg.s} |-> inputStore[n]]
               ELSE inputStore
  /\ UNCHANGED <<clock, outputStore, lastWriter, uploaded, events,
                 status, input, output, invoked>>

\* an attempt of analyze_pdf returns or raises
AnalyzePdf(i) ==
  /\ "analyze_pdf" \in running[i]
  /\ task[i].name = "analyze_pdf"
  /\ \E serviceOk \in BOOLEAN :
       Finish(i, analyze_pdf(task[i].arg, inputStore, serviceOk))
  /\ UNCHANGED <<clock, inputStore, outputStore, lastWriter, uploaded, events,
                 status, input, output, invoked>>

\* an attempt of summarize_text returns or raises
SummarizeText(i) ==
  /\ "summarize_text" \in running[i]
  /\ task[i].name = "summarize_text"
  /\ \E response \in Responses :
       Finish(i, summarize_text(task[i].arg, response))
  /\ UNCHANGED <<clock, inputStore, outputStore, lastWriter, uploaded, events,
                 status, input, output, invoked>>

\* an attempt of write_doc returns or raises
WriteDoc(i) ==
  /\ "write_doc" \in running[i]
  /\ task[i].name = "write_doc"
  /\ \E serviceOk \in BOOLEAN :
       LET r == write_doc(task[i].arg, clock, outputStore, serviceOk)
       IN /\ Finish(i, r)
          /\ outputStore' = r.store
          /\ lastWriter' = [n \in DOMAIN lastWriter \cup r.stored |->
                              IF n \in r.stored THEN i ELSE lastWriter[n]]
          /\ uploaded' = [uploaded EXCEPT ![i] = @ \cup r.stored]
  /\ UNCHANGED <<clock, inputStore, events, status, input, output, invoked>>

Next ==
  \/ Tick
  \/ \E name \in BlobNames, doc \in Docs : Upload(name, doc)
  \/ \E e \in events : blob_trigger(e)
  \/ \E i \in Instances : Execute(i)
  \/ \E i \in Instances : StartAttempt(i)
  \/ \E i \in Instances : AnalyzePdf(i)
  \/ \E i \in Instances : SummarizeText(i)
  \/ \E i \in Instances : WriteDoc(i)

Spec == Init /\ [][Next]_vars

\* the runtime resumes the orchestration and runs the scheduled attempts, and
\* every attempt in flight returns or raises
Fairness ==
  \A i \in Instances :
    /\ WF_vars(Execute(i))
    /\ WF_vars(StartAttempt(i))
    /\ WF_vars(AnalyzePdf(i))
    /\ WF_vars(SummarizeText(i))
    /\ WF_vars(WriteDoc(i))

\* the runs in which at most MaxFairInst objects are dropped
FairNext ==
  \/ Tick
  \/ \E name \in BlobNames, doc \in Docs : UploadUpTo(MaxFairInst, name, doc)
  \/ \E e \in events : blob_trigger(e)
  \/ \E i \in Instances : Execute(i)
  \/ \E i \in Instances : StartAttempt(i)
  \/ \E i \in Instances : AnalyzePdf(i)
  \/ \E i \in Instances : SummarizeText(i)
  \/ \E i \in Instances : WriteDoc(i)

FairSpec == Init /\ [][FairNext]_vars /\ Fairness

\* path of the trigger binding, "input/{name}", up to the name
InputPrefix == <<"i", "n", "p", "u", "t", "/">>

\* object names of which one has a "/" of its own (a virtual folder)
TriggerNames == { <<"a">>, <<"a", "/", "b">> }

\* the runs in which the objects dropped are named from TriggerNames
TriggerNext ==
  \/ Tick
  \/ \E name \in TriggerNames, doc \in Docs : UploadUpTo(MaxInst, name, doc)
  \/ \E e \in events : blob_trigger(e)
  \/ \E i \in Instances : Execute(i)
  \/ \E i \in Instances : StartAttempt(i)
  \/ \E i \in Instances : AnalyzePdf(i)
  \/ \E i \in Instances : SummarizeText(i)
  \/ \E i \in Instances : WriteDoc(i)

TriggerSpec == Init /\ [][TriggerNext]_vars

\* the sequences over S of length at most n
SeqsUpTo(S, n) == UNION { [1..k -> S] : k \in 0..n }

\* contents of a recognized line
LineContents == { <<>>, <<"x">>, <<"y">> }

\* layout results of up to MaxPages pages of up to MaxLines lines
LayoutDocs == SeqsUpTo(SeqsUpTo(LineContents, MaxLines), MaxPages)

\* the runs in which one object is dropped, its layout drawn from LayoutDocs
AnalyzeNext ==
  \/ Tick
  \/ \E name \in BlobNames, doc \in LayoutDocs : UploadUpTo(MaxFairInst, name, doc)
  \/ \E e \in events : blob_trigger(e)
  \/ \E i \in Instances : Execute(i)
  \/ \E i \in Instances : StartAttempt(i)
  \/ \E i \in Instances : AnalyzePdf(i)
  \/ \E i \in Instances : SummarizeText(i)
  \/ \E i \in Instances : WriteDoc(i)

AnalyzeSpec == Init /\ [][AnalyzeNext]_vars

\* ----------------------------------------------------------------- claims
\* C1: within one instance the steps run strictly in the order analyze_pdf,
\* summarize_text, write_doc: an attempt of a step starts only after the step
\* before it has completed successfully, and at most one step of the instance
\* is in flight.
C1_StrictSequence ==
  \A i \in Instances :
    /\ Cardinality(running[i]) <= 1
    /\ invoked[i] \in {{}, {"analyze_pdf"}, {"analyze_pdf", "summarize_text"},
                       Activities}
    /\ "summarize_text" \in invoked[i] =>
         /\ Len(history[i]) >= 1 /\ history[i][1].ok
         /\ "analyze_pdf" \notin running[i]
    /\ "write_doc" \in invoked[i] =>
         /\ Len(history[i]) >= 2 /\ history[i][1].ok /\ history[i][2].ok
         /\ running[i] \subseteq {"write_doc"}

\* an attempt of write_doc is in flight after the two steps before it
C1_Witness ==
  \E i \in Instances :
    "write_doc" \in running[i] /\ last[i].name = "summarize_text"

\* the completion call of instance i has raised on every allowed attempt
SummarizeExhausted(i) == Len(history[i]) = 2 /\ ~history[i][2].ok

\* C2: when summarize_text raises on every attempt, the orchestration ends
\* Failed (it is Summarizing until the body has seen the failure), the
\* activity was invoked exactly max_number_of_attempts times, write_doc is
\* never invoked and the instance has stored no output object.
C2_SummarizeExhausted ==
  \A i \in Instances :
    SummarizeExhausted(i) =>
      /\ status[i] \in {"Summarizing", "Failed"}
      /\ task[i] = NoTask /\ running[i] = {}
      /\ last[i].name = "summarize_text" /\ ~last[i].ok
      /\ last[i].attempt = max_number_of_attempts
      /\ "write_doc" \notin invoked[i]
      /\ uploaded[i] = {}
      /\ \A n \in DOMAIN outputStore : lastWriter[n] # i

C2_Witness ==
  \E i \in Instances : SummarizeExhausted(i) /\ status[i] = "Failed"

\* the attempt of instance i that finished last failed once and then
\* succeeded on its 2nd attempt
RetriedOk(i) == last[i].name \in Activities /\ last[i].ok /\ last[i].attempt = 2

\* the result of that attempt is the recorded result of its step and is what
\* the orchestration goes on with
UsesRetriedResult(i) ==
  LET k == Len(history[i])
  IN /\ k >= 1 /\ history[i][k] = [ok |-> TRUE, val |-> last[i].val]
     /\ status[i] # "Failed"
     /\ task[i] # NoTask =>
          \/ /\ last[i].name = "analyze_pdf" /\ task[i].name = "summarize_text"
             /\ task[i].arg = last[i].val
          \/ /\ last[i].name = "summarize_text" /\ task[i].name = "write_doc"
             /\ task[i].arg.summary = last[i].val
     /\ status[i] = "Completed" =>
          last[i].name = "write_doc" /\ output[i] = last[i].val

\* C3: retry transparency.  A step that fails on its 1st attempt and succeeds
\* on its 2nd does not fail the orchestration: the result of the 2nd attempt
\* is recorded and passed on, the instance fails only when some step has used
\* up its attempts, and the instance goes on to a terminal state.
C3_RetryTransparency ==
  \A i \in Instances :
    /\ [](RetriedOk(i) => UsesRetriedResult(i))
    /\ [](status[i] = "Failed" =>
            ~last[i].ok /\ last[i].attempt = max_number_of_attempts)
    /\ (RetriedOk(i) ~> status[i] \in Terminal)

\* summarize_text succeeded on its 2nd attempt and write_doc is scheduled
\* with its result
C3_Witness ==
  \E i \in Instances :
    /\ RetriedOk(i) /\ last[i].name = "summarize_text"
    /\ task[i].name = "write_doc" /\ task[i].arg.summary = last[i].val

\* the analysis of instance i has returned the empty string
EmptyText(i) ==
  Len(history[i]) >= 1 /\ history[i][1] = [ok |-> TRUE, val |-> Str(<<>>)]

\* C4: when the extracted text is the empty string the pipeline still
\* completes and the output object it writes holds the placeholder summary
\* text.
C4_EmptyTextPlaceholder ==
  \A i \in Instances :
    (EmptyText(i) /\ status[i] = "Completed") =>
      \A n \in uploaded[i] :
        lastWriter[n] = i => outputStore[n] = Str(Placeholder)

\* C5: the content of a summary is never null or absent, so the body handed
\* to the upload call is always a string and write_doc never fails on
\* missing content.
C5_ContentNeverNull ==
  \A i \in Instances :
    /\ (Len(history[i]) >= 2 /\ history[i][2].ok) =>
         history[i][2].val.content.t = "str"
    /\ last[i].name = "write_doc" => last[i].err # "TypeError"

\* the last attempt of instance i was a write_doc that returned
WroteOk(i) == last[i].name = "write_doc" /\ last[i].ok

\* write_doc has run to completion twice, for i and for j, on identical input
SameWriteInput(i, j) ==
  i # j /\ WroteOk(i) /\ WroteOk(j) /\ last[i].arg = last[j].arg

NoDuplicateNameError ==
  \A i \in Instances : last[i].err # "ResourceExistsError"

\* C6 as claimed: two runs of write_doc on identical input, at any two clock
\* values, never fail with a duplicate-name error and leave exactly one
\* object in the output store for that input, holding the latest content.
C6_OneObjectPerInput ==
  /\ NoDuplicateNameError
  /\ \A i, j \in Instances :
       SameWriteInput(i, j) =>
         /\ Cardinality(uploaded[i] \cup uploaded[j]) = 1
         /\ \A n \in uploaded[i] \cup uploaded[j] :
              n \in DOMAIN outputStore
              /\ outputStore[n] = last[lastWriter[n]].arg.summary.content

\* C6 as amended: two runs of write_doc on identical input never fail with a
\* duplicate-name error; every resulting name holds exactly one object, with
\* the content uploaded last under it; the runs leave one object when they
\* read the same clock second and two objects, one per timestamp, otherwise.
C6_OverwritePerName ==
  /\ NoDuplicateNameError
  /\ \A i, j \in Instances :
       SameWriteInput(i, j) =>
         /\ Cardinality(uploaded[i] \cup uploaded[j]) =
              IF last[i].read = last[j].read THEN 1 ELSE 2
         /\ \A n \in uploaded[i] \cup uploaded[j] :
              n \in DOMAIN outputStore
              /\ outputStore[n] = last[lastWriter[n]].arg.summary.content

\* two runs on identical input in the same second: the second has overwritten
C6_Witness ==
  \E i, j \in Instances :
    SameWriteInput(i, j) /\ last[i].read = last[j].read /\ uploaded[i] = uploaded[j]

CompletedInstances == {i \in Instances : status[i] = "Completed"}

ObjectsOfCompleted ==
  {n \in DOMAIN outputStore : \E i \in CompletedInstances : n \in uploaded[i]}

\* C7 as claimed: the number of output objects attributable to completed
\* instances equals the number of completed instances.
C7_OneObjectPerCompleted ==
  Cardinality(ObjectsOfCompleted) = Cardinality(CompletedInstances)

\* C7 as amended: every completed instance has uploaded exactly one object,
\* under the file name it returns, and that name is in the output container;
\* the objects attributable to completed instances are as many as the
\* distinct file names they returned.
C7_OneObjectPerName ==
  /\ \A i \in CompletedInstances :
       uploaded[i] = {output[i].s} /\ output[i].s \in DOMAIN outputStore
  /\ Cardinality(ObjectsOfCompleted) =
       Cardinality({output[i].s : i \in CompletedInstances})

\* two instances have completed
C7_Witness == Cardinality(CompletedInstances) = 2

\* C8: a failed orchestration has produced no output object.
C8_FailedNoOutput ==
  \A i \in Instances :
    status[i] = "Failed" =>
      uploaded[i] = {} /\ \A n \in DOMAIN outputStore : lastWriter[n] # i

\* an instance has failed at write_doc, its attempts used up by a failing service
C8_Witness ==
  \E i \in Instances :
    /\ status[i] = "Failed" /\ Len(history[i]) = 3
    /\ last[i].err = "HttpResponseError"

\* the file names the code derives for blob name n
OutputNames(n) ==
  { n \o <<"-">> \o strftime(t) \o <<".", "t", "x", "t">> : t \in 0..MaxClock }

\* C9 as claimed: a completed orchestration started with input n returns a
\* file name n-<timestamp>.txt, and the object of that name holds the summary
\* content returned by the summarize step of that instance.
C9_OutputHoldsOwnSummary ==
  \A i \in CompletedInstances :
    /\ output[i].t = "str" /\ output[i].s \in OutputNames(input[i].s)
    /\ output[i].s \in DOMAIN outputStore
    /\ outputStore[output[i].s] = history[i][2].val.content

\* C9 as amended: the object of that name holds the summary content of the
\* instance that uploaded last under the name: the instance itself, or
\* another instance for the same blob name that derived the same name.
C9_OutputHoldsLastSummary ==
  \A i \in CompletedInstances :
    /\ output[i].t = "str" /\ output[i].s \in OutputNames(input[i].s)
    /\ output[i].s \in DOMAIN outputStore
    /\ LET w == lastWriter[output[i].s]
       IN /\ outputStore[output[i].s] = history[w][2].val.content
          /\ input[w] = input[i]
          /\ output[i].s \in uploaded[w]

\* an instance has completed and its object was overwritten by the other one
C9_Witness ==
  \E i \in CompletedInstances : lastWriter[output[i].s] # i

\* the action the body issues when run at clock value t on i's history
Replay(i, t) ==
  process_document([input |-> input[i], history |-> history[i], now |-> t])

\* C10: replay determinism.  Run against the same input and recorded history
\* at any clock value, the body issues the action that was issued before: the
\* call that is scheduled, the value that was returned, or the failure.
C10_ReplayDeterminism ==
  \A i \in Instances :
    status[i] # "NotStarted" =>
      \A t \in 0..MaxClock :
        /\ \A u \in 0..MaxClock : Replay(i, u) = Replay(i, t)
        /\ task[i] # NoTask =>
             /\ Replay(i, t).kind = "call"
             /\ Replay(i, t).name = task[i].name
             /\ Replay(i, t).arg = task[i].arg
        /\ status[i] = "Completed" => Replay(i, t) = Return(output[i])
        /\ status[i] = "Failed" => Replay(i, t) = Raise

\* write_doc was scheduled and the clock has moved on since the run started
C10_Witness ==
  \E i \in Instances : task[i].name = "write_doc" /\ clock = MaxClock

\* the instances that the step from the current state starts
StartedByStep ==
  {i \in Instances : status[i] = "NotStarted" /\ status'[i] = "Started"}

\* C11: the trigger, run for the event of an object placed at input/<name>,
\* starts exactly one orchestration instance, and the input of that instance
\* is <name>: the whole object name with only the container prefix stripped,
\* also when <name> itself has "/" separators.
C11_TriggerPassesFullName ==
  [][\A e \in events :
       blob_trigger(e) =>
         /\ Cardinality(StartedByStep) = 1
         /\ \A i \in StartedByStep :
              input'[i] = Str(SubSeq(e, Len(InputPrefix) + 1, Len(e)))
         /\ \A i \in Instances \ StartedByStep :
              status'[i] = status[i] /\ input'[i] = input[i]]_vars

\* the moves of the pipeline's state machine
Moves ==
  { <<"NotStarted", "Started">>, <<"Started", "AnalyzingDocument">>,
    <<"AnalyzingDocument", "Summarizing">>, <<"Summarizing", "Writing">>,
    <<"Writing", "Completed">> }
    \cup { <<s, "Failed">> :
             s \in {"Started", "AnalyzingDocument", "Summarizing", "Writing"} }

\* nothing of instance i changes in the step from the current state
InstanceUnchanged(i) ==
  /\ status'[i] = status[i] /\ output'[i] = output[i]
  /\ input'[i] = input[i] /\ history'[i] = history[i]
  /\ task'[i] = task[i] /\ running'[i] = running[i]
  /\ invoked'[i] = invoked[i] /\ last'[i] = last[i]
  /\ uploaded'[i] = uploaded[i]

\* C12: an instance moves only along Started -> AnalyzingDocument ->
\* Summarizing -> Writing -> Completed or from a non-terminal state to Failed;
\* Completed and Failed are terminal: no call is scheduled or in flight there,
\* and from then on the state, the output and everything else of the instance
\* stay as they are (a replay of the body included).
C12_StateMachine ==
  /\ [](\A i \in Instances :
          status[i] \in Terminal =>
            task[i] = NoTask /\ running[i] = {} /\ ~ENABLED StartAttempt(i))
  /\ [][\A i \in Instances :
          /\ status'[i] # status[i] => <<status[i], status'[i]>> \in Moves
          /\ status[i] \in Terminal => InstanceUnchanged(i)]_vars

\* one instance has completed and the other one has failed in the write step
C12_Witness ==
  \E i, j \in Instances :
    /\ status[i] = "Completed" /\ output[i] = last[i].val
    /\ status[j] = "Failed" /\ Len(history[j]) = 3

\* Failed is entered from AnalyzingDocument, from Summarizing and from Writing
C12_FailedFromAnalyzing ==
  \E i \in Instances : status[i] = "Failed" /\ Len(history[i]) = 1

C12_FailedFromSummarizing ==
  \E i \in Instances : status[i] = "Failed" /\ Len(history[i]) = 2

\* the step from the current state starts an attempt of i's scheduled call
AttemptStarts(i) == task'[i].attempts > task[i].attempts

\* the attempt of instance i that finished last was the 3rd and it failed
ThirdFailure(i) ==
  last[i].attempt = max_number_of_attempts /\ ~last[i].ok

\* C13: each of the three calls is issued with the policy {5000 ms, 3
\* attempts}; a step is attempted at most 3 times per instance; the 1st
\* attempt of a step is the first time the step is started, and a further
\* attempt starts only after the attempt before it has failed; after the 3rd
\* failure of a step no attempt can start, the body raises and the instance
\* is Failed as soon as the body has run.
C13_UniformRetry ==
  /\ [](\A i \in Instances :
          /\ task[i] # NoTask =>
               /\ task[i].name \in Activities
               /\ task[i].max = max_number_of_attempts
               /\ task[i].attempts <= max_number_of_attempts
          /\ (status[i] # "NotStarted" /\ Replay(i, clock).kind = "call") =>
               Replay(i, clock).retry =
                 [first_retry_interval_in_milliseconds |->
                    first_retry_interval_in_milliseconds,
                  max_number_of_attempts |-> max_number_of_attempts]
          /\ last[i].attempt <= max_number_of_attempts
          /\ ThirdFailure(i) =>
               /\ task[i] = NoTask /\ ~ENABLED StartAttempt(i)
               /\ Replay(i, clock) = Raise
               /\ status[i] \in {StateOf(last[i].name), "Failed"})
  /\ [][\A i \in Instances :
          AttemptStarts(i) =>
            /\ task'[i].attempts = task[i].attempts + 1
            /\ task'[i].name = task[i].name
            /\ task[i].name \notin running[i]
            /\ task[i].attempts = 0 => task[i].name \notin invoked[i]
            /\ task[i].attempts > 0 =>
                 /\ last[i].name = task[i].name /\ ~last[i].ok
                 /\ last[i].attempt = task[i].attempts]_vars

\* one instance has failed on the 3rd failure of analyze_pdf, the other one
\* has written its object on the 3rd attempt of write_doc
C13_Witness ==
  \E i, j \in Instances :
    /\ ThirdFailure(i) /\ last[i].name = "analyze_pdf" /\ status[i] = "Failed"
    /\ last[j].name = "write_doc" /\ last[j].ok
    /\ last[j].attempt = max_number_of_attempts

\* under fair scheduling the 3rd failure of a step leads to Failed
C13_ThirdFailureFails ==
  \A i \in Instances : ThirdFailure(i) ~> status[i] = "Failed"

\* a step of the runtime for instance j
StepOf(j) ==
  \/ Execute(j) \/ StartAttempt(j)
  \/ AnalyzePdf(j) \/ SummarizeText(j) \/ WriteDoc(j)

\* what an attempt hands back to the runtime
Outcome(r) == [ok |-> r.ok, val |-> r.val, err |-> r.err]

\* instances i and j have both uploaded under one output name
SameOutputName(i, j) == i # j /\ uploaded[i] \cap uploaded[j] # {}

\* C14: when two instances upload under the same derived name, neither upload
\* fails on the existing object, the name holds one object and its content is
\* that of the upload executed last.  Nothing else is shared: a step of one
\* instance changes nothing of another instance nor the input container, what
\* a write_doc attempt returns does not depend on what the output container
\* holds, and the file name an instance returns is derived from its own input
\* and the clock value its own attempt has read.
C14_LastWriterWins ==
  /\ [](/\ NoDuplicateNameError
        /\ \A i, j \in Instances :
             SameOutputName(i, j) =>
               \A n \in uploaded[i] \cap uploaded[j] :
                 /\ n \in DOMAIN outputStore
                 /\ lastWriter[n] \in {i, j}
                 /\ outputStore[n] = last[lastWriter[n]].arg.summary.content
        /\ \A i \in Instances :
             /\ task[i].name = "write_doc" =>
                  \A serviceOk \in BOOLEAN :
                    Outcome(write_doc(task[i].arg, clock, outputStore, serviceOk))
                      = Outcome(write_doc(task[i].arg, clock, EmptyContainer,
                                          serviceOk))
             /\ status[i] = "Completed" =>
                  /\ output[i] = last[i].val
                  /\ \E t \in last[i].read :
                       output[i].s = input[i].s \o <<"-">> \o strftime(t)
                                       \o <<".", "t", "x", "t">>)
  /\ [][\A j \in Instances :
          /\ StepOf(j) =>
               /\ \A i \in Instances \ {j} : InstanceUnchanged(i)
               /\ inputStore' = inputStore /\ events' = events
               /\ clock' = clock
          /\ (last'[j] # last[j] /\ WroteOk(j)') =>
               \A n \in DOMAIN outputStore' :
                 IF n = last'[j].val.s
                 THEN /\ outputStore'[n] = task[j].arg.summary.content
                      /\ lastWriter'[n] = j
                 ELSE /\ n \in DOMAIN outputStore
                      /\ outputStore'[n] = outputStore[n]
                      /\ lastWriter'[n] = lastWriter[n]]_vars

\* both instances have uploaded under one name with different contents, and
\* the name holds the content of the one that uploaded last
C14_Witness ==
  \E i, j \in Instances :
    /\ SameOutputName(i, j)
    /\ last[i].arg.summary # last[j].arg.summary
    /\ \A n \in uploaded[i] \cap uploaded[j] :
         lastWriter[n] = j /\ outputStore[n] = last[j].arg.summary.content

\* the result of a write_doc attempt of instance i is recorded in its history
WriteRecorded(i) == Len(history[i]) = 3 /\ history[i][3].ok

\* C15: the clock is read by write_doc attempts only.  Once the result of a
\* write_doc attempt is recorded, a run of the body at any clock value returns
\* the recorded file name, which carries the clock value the attempt has
\* read; no call is scheduled and no attempt can start, and a replay leaves
\* the output container, the history and the returned value as they are.
C15_TimestampOnlyInWrite ==
  /\ [](\A i \in Instances :
          /\ last[i].read # {} => last[i].name = "write_doc"
          /\ last[i].name = "write_doc" => last[i].read \subseteq 0..clock
          /\ WriteRecorded(i) =>
               /\ \A t \in 0..MaxClock : Replay(i, t) = Return(history[i][3].val)
               /\ history[i][3].val = last[i].val
               /\ \E t \in last[i].read :
                    last[i].val.s = input[i].s \o <<"-">> \o strftime(t)
                                      \o <<".", "t", "x", "t">>
               /\ task[i] = NoTask /\ running[i] = {}
               /\ ~ENABLED StartAttempt(i) /\ ~ENABLED WriteDoc(i)
               /\ status[i] = "Completed" => output[i] = history[i][3].val)
  /\ [][\A i \in Instances :
          (WriteRecorded(i) /\ Execute(i)) =>
            /\ status'[i] = "Completed" /\ output'[i] = history[i][3].val
            /\ outputStore' = outputStore /\ uploaded' = uploaded
            /\ lastWriter' = lastWriter /\ history' = history
            /\ task' = task /\ running' = running]_vars

\* the write step read the clock at 0 and the instance has completed, by a
\* run of the body at a later clock value, with the file name stamped 0
C15_Witness ==
  \E i \in Instances :
    /\ status[i] = "Completed" /\ last[i].read = {0} /\ clock > 0
    /\ output[i].s = input[i].s \o <<"-">> \o strftime(0) \o <<".", "t", "x", "t">>

\* the argument the body passes to the named step of instance i
ArgOf(i, name) ==
  CASE name = "analyze_pdf" -> input[i]
    [] name = "summarize_text" -> history[i][1].val
    [] name = "write_doc" ->
         [t |-> "dict", blobName |-> input[i], summary |-> history[i][2].val]

\* C16: data flows unchanged from step to step.  The scheduled call and every
\* attempt (retries included) of analyze_pdf is handed the orchestration
\* input, of summarize_text the recorded value of the successful analyze_pdf
\* attempt, of write_doc {blobName: the orchestration input, summary: the
\* recorded value of the successful summarize_text attempt}; the value a
\* successful attempt returns is the value recorded; the orchestration
\* returns the recorded value of write_doc; the input never changes.
C16_DataFlow ==
  /\ [](\A i \in Instances :
          /\ task[i] # NoTask =>
               /\ task[i].arg = ArgOf(i, task[i].name)
               /\ \A k \in 1..Len(history[i]) : history[i][k].ok
          /\ last[i].name \in Activities =>
               last[i].arg = ArgOf(i, last[i].name)
          /\ status[i] = "Completed" =>
               /\ Len(history[i]) = 3 /\ history[i][3].ok
               /\ output[i] = history[i][3].val)
  /\ [][\A i \in Instances :
          /\ status[i] # "NotStarted" => input'[i] = input[i]
          /\ \A k \in 1..Len(history[i]) :
               Len(history'[i]) >= k /\ history'[i][k] = history[i][k]
          /\ last'[i] # last[i] =>
               /\ last'[i].arg = task[i].arg /\ last'[i].name = task[i].name
               /\ last'[i].ok =>
                    history'[i] =
                      Append(history[i], [ok |-> TRUE, val |-> last'[i].val])]_vars

\* an instance has completed on a document with text, the write step having
\* been retried with the same argument
C16_Witness ==
  \E i \in Instances :
    /\ status[i] = "Completed" /\ last[i].attempt > 1
    /\ history[i][1].val.s # <<>>
    /\ history[i][2].val = SummaryDict(Str(<<"s">>))
    /\ last[i].arg = [t |-> "dict", blobName |-> input[i],
                       summary |-> SummaryDict(Str(<<"s">>))]
    /\ output[i] = last[i].val

RECURSIVE Flatten(_)
\* the lines of all pages, in page order then line order within a page
Flatten(pages) ==
  IF pages = <<>> THEN <<>> ELSE pages[1] \o Flatten(Tail(pages))

RECURSIVE Join(_, _)
\* sep.join(lines): sep stands between consecutive lines only
Join(lines, sep) ==
  IF lines = <<>> THEN <<>>
  ELSE IF Len(lines) = 1 THEN lines[1]
  ELSE lines[1] \o <<sep>> \o Join(Tail(lines), sep)

\* analyze_pdf has returned for instance i
Analyzed(i) == Len(history[i]) >= 1 /\ history[i][1].ok

\* the layout instance i has analyzed
LayoutOf(i) == inputStore[input[i].s]

\* C17 as claimed: analyze_pdf returns the line contents in page order then
\* line order, joined by newlines standing between consecutive lines, and
\* the empty string when there are no lines.
C17_JoinedByNewlines ==
  \A i \in Instances :
    Analyzed(i) =>
      history[i][1].val = Str(Join(Flatten(LayoutOf(i)), "\n"))

\* C17 as amended: analyze_pdf returns the line contents in page order then
\* line order, each followed by a newline: the newline-joined lines with one
\* more newline at the end when there is a line, the empty string when there
\* is none.  Split at the newlines, the text gives back the lines, followed
\* by one empty piece.
C17_NewlineTerminated ==
  \A i \in Instances :
    Analyzed(i) =>
      LET lines == Flatten(LayoutOf(i))
          text == history[i][1].val
      IN /\ text.t = "str"
         /\ text.s = Join(lines, "\n")
                       \o (IF lines = <<>> THEN <<>> ELSE <<"\n">>)
         /\ Split(text.s, "\n") = lines \o << <<>> >>
         /\ lines = <<>> <=> text.s = <<>>

\* a layout of two pages, the first of two lines, has been analyzed
C17_Witness ==
  \E i \in Instances :
    /\ Analyzed(i)
    /\ LayoutOf(i) = << << <<"x">>, <<"y">> >>, << <<"x">> >> >>
    /\ history[i][1].val.s = <<"x", "\n", "y", "\n", "x", "\n">>

\* attempts one instance can make: max_number_of_attempts for each step
AttemptBudget == Cardinality(Activities) * max_number_of_attempts

\* attempts instance i can still make: those of the steps not yet recorded,
\* less the attempts of the scheduled call that were started
Remaining(i) ==
  max_number_of_attempts * (Cardinality(Activities) - Len(history[i]))
    - task[i].attempts

\* C18: under fair scheduling, with every attempt returning or raising, a
\* started instance reaches Completed or Failed.  It does so within 9
\* attempts: a started instance has 9 attempts left, every start of an
\* attempt takes at least one of them, no step gives any back, and the
\* number left never falls below 0.
C18_Terminates ==
  /\ \A i \in Instances :
       (status[i] # "NotStarted") ~> (status[i] \in Terminal)
  /\ [](/\ AttemptBudget = 9
        /\ \A i \in Instances :
             /\ Remaining(i) \in 0..AttemptBudget
             /\ status[i] \in {"NotStarted", "Started"} =>
                  Remaining(i) = AttemptBudget)
  /\ [][\A i \in Instances :
          IF AttemptStarts(i)
          THEN Remaining(i)' < Remaining(i)
          ELSE Remaining(i)' <= Remaining(i)]_vars

\* an instance has completed with its last step on its 3rd attempt
C18_Witness ==
  \E i \in Instances :
    /\ status[i] = "Completed" /\ Remaining(i) = 0
    /\ last[i].name = "write_doc" /\ last[i].attempt = max_number_of_attempts

\* a step of the runtime for instance i other than a write_doc attempt
NonWritingStep(i) ==
  \/ Execute(i) \/ StartAttempt(i)
  \/ AnalyzePdf(i) \/ SummarizeText(i)

\* C19: only the write step changes stored data.  The trigger, the runs of
\* the body, the starts of attempts and the attempts of analyze_pdf and
\* summarize_text, returning or raising, leave the input and the output
\* container as they are; write_doc leaves the input container as it is; the
\* output container changes only in a write_doc attempt and the input
\* container only by a client's upload, which never removes an object; every
\* object of the output container was stored by a write_doc attempt.
C19_OnlyWriteStores ==
  /\ [](DOMAIN outputStore = UNION {uploaded[i] : i \in Instances})
  /\ [][/\ \A i \in Instances :
           /\ NonWritingStep(i) =>
                inputStore' = inputStore /\ outputStore' = outputStore
           /\ WriteDoc(i) => inputStore' = inputStore
        /\ \A e \in events :
             blob_trigger(e) =>
               inputStore' = inputStore /\ outputStore' = outputStore
        /\ outputStore' # outputStore =>
             \E i \in Instances : WriteDoc(i) /\ WroteOk(i)'
        /\ inputStore' # inputStore =>
             \E name \in BlobNames, doc \in Docs : Upload(name, doc)
        /\ DOMAIN inputStore \subseteq DOMAIN inputStore']_vars

\* one instance has completed and another has failed in summarize_text: the
\* output container holds the object of the write step and nothing else, the
\* input container still holds the objects that were dropped
C19_Witness ==
  \E i, j \in Instances :
    /\ status[i] = "Completed" /\ DOMAIN outputStore = uploaded[i]
    /\ status[j] = "Failed" /\ last[j].name = "summarize_text"
    /\ {input[i].s, input[j].s} \subseteq DOMAIN inputStore

====
